---- MODULE Spec2Model ----
(***************************************************************************)
(* The ledger-to-letter pipeline of streamlit_app.py: an uploaded sheet of *)
(* ledger rows is read into a DataFrame, aggregate_tables() classifies,    *)
(* sign-normalises, groups, filters and orders the rows, and build_doc()   *)
(* writes the tables, their subtotals and the grand total into the letter. *)
(* main() runs them on the file and the client widgets of the page:        *)
(* standardise_columns() gates the header of the sheet, and the letter is  *)
(* built only when the four client fields are filled in.                   *)
(*                                                                         *)
(* Amounts are whole currency units (integers): pandas holds them as       *)
(* float64, whose addition is exact on integers of this size, so the sums  *)
(* below are the sums the code computes.  The letter "a" stands for the    *)
(* accented "a" of "Fedelta" in the labels (the module is ASCII); the      *)
(* order of the strings is not affected.                                   *)
(***************************************************************************)
EXTENDS Integers, Sequences, FiniteSets, TLC

VARIABLES
  registry,     \* the module-level ITEM_CONFIG the run was started with
  client,       \* the widgets name, addr, cf, contract and recipient_type
  uploaded,     \* main's "file is not None"
  columns,      \* the header of the uploaded sheet: its column names
  file,         \* the rows of the uploaded sheet, as uploaded
  df_columns,   \* the columns of main's df: header name -> column label
  df,           \* the caller's DataFrame (main's df), rows of [name, value]
  norm,         \* aggregate_tables' local df after line 288
  tables,       \* main's tables: table id -> ordered rows [Label, Amount]
  doc,          \* the blocks build_doc has added to the letter
  grand_total,  \* build_doc's grand_total
  notice,       \* what the page ends with: st.error, st.info, the download
  error,        \* the exception that ended the run, "" if none
  pc            \* where main() is

vars ==
  << registry, client, uploaded, columns, file, df_columns, df, norm, tables,
     doc, grand_total, notice, error, pc >>

---------------------------------------------------------------------------
(* Bounds of the model *)

\* rows of an uploaded sheet
MaxRows == 3

\* rows of a sheet of SpecSign, whose rows range over the whole registry
MaxSignRows == 2

\* pieces of a client name
MaxPieces == 5

---------------------------------------------------------------------------
(* HARD-CODED CONFIGURATION *)

ITEM_CONFIG ==
  <<
    [key |-> "Acquisition cost deduction from regular premium",
     label |-> "Costi di emissione e gestione", table |-> "T1", pos |-> 1],
    [key |-> "Contract fee deduction from regular premium",
     label |-> "Costi di emissione e gestione", table |-> "T1", pos |-> 1],
    [key |-> "Acquisition cost deduction from single premium",
     label |-> "Costi di emissione e gestione", table |-> "T1", pos |-> 1],
    [key |-> "Contract fee deduction from single premium",
     label |-> "Costi di emissione e gestione", table |-> "T1", pos |-> 1],
    [key |-> "Administrative deduction",
     label |-> "Costi di caricamento", table |-> "T1", pos |-> 2],
    [key |-> "Investment deduction",
     label |-> "Costi di investimento", table |-> "T1", pos |-> 3],
    [key |-> "Investment deduction from Regular Premium Balance",
     label |-> "Costi di investimento", table |-> "T1", pos |-> 3],
    [key |-> "Investment deduction from Single PremiumBalance",
     label |-> "Costi di investimento", table |-> "T1", pos |-> 3],
    [key |-> "Investment return from insurance funds",
     label |-> "Capitalizzazione", table |-> "T1", pos |-> 4],
    [key |-> "Investment return from insurance funds of Regular premium",
     label |-> "Capitalizzazione", table |-> "T1", pos |-> 4],
    [key |-> "Investment return from insurance funds of Single premium",
     label |-> "Capitalizzazione", table |-> "T1", pos |-> 4],
    [key |-> "Paid Premium",
     label |-> "Pagamenti dei Premi identificati", table |-> "T1", pos |-> 5],
    [key |-> "Paid Single Premium",
     label |-> "Pagamenti dei Premi identificati", table |-> "T1", pos |-> 5],
    [key |-> "Returned Premium",
     label |-> "Pagamenti dei Premi identificati", table |-> "T1", pos |-> 5],
    [key |-> "Risk deduction - Death",
     label |-> "Trattenuta copertura rischio morte", table |-> "T1", pos |-> 6],
    [key |-> "Risk deduction - accident insurance deduction",
     label |-> "Trattenuta copertura rischio infortunio", table |-> "T1", pos |-> 7],
    [key |-> "Risk deduction - Illnesses and operations",
     label |-> "Trattenuta copertura rischio malattia, interventi chirurgici e assistenza",
     table |-> "T1", pos |-> 8],
    [key |-> "Risk deduction - Waiver of premium",
     label |-> "Esonero Pagamento Premi ITP", table |-> "T1", pos |-> 9],
    [key |-> "Partial surrender",
     label |-> "Riscatto (parziale)", table |-> "T1", pos |-> 10],
    [key |-> "Partial Surrender Calculated value",
     label |-> "Riscatto (parziale)", table |-> "T1", pos |-> 10],
    [key |-> "Stamp Duty Fee",
     label |-> "Imposta di bollo", table |-> "T1", pos |-> 11],
    [key |-> "Investment return of Novis Loyalty Bonus",
     label |-> "Rendimento Bonus Fedelta NOVIS", table |-> "T2", pos |-> 1],
    [key |-> "Investment deduction of Novis Loyalty Bonus",
     label |-> "Costi di investimento - Bonus Fedelta NOVIS", table |-> "T2", pos |-> 1],
    [key |-> "NOVIS Loyalty Bonus",
     label |-> "Bonus Fedelta NOVIS", table |-> "T2", pos |-> 2],
    [key |-> "NOVIS Special Bonus",
     label |-> "NOVIS Special Bonus", table |-> "T3", pos |-> 1]
  >>

\* dict.get's default for a label LABEL_POS does not hold
DEFAULT_POS == 999

POSITIVE_LABELS ==
  { "Pagamenti dei Premi identificati",
    "Rendimento Bonus Fedelta NOVIS",
    "Bonus Fedelta NOVIS",
    "NOVIS Special Bonus" }

\* TABLE_CONFIG, in the order of its keys
TABLE_ORDER == <<"T1", "T2", "T3">>

TABLE_CONFIG ==
  [t \in {"T1", "T2", "T3"} |->
     [title |-> "", include_total |-> (t # "T3")]]

SALUTATION_ADDR ==
  [male |-> "Egr. Sig.", female |-> "Gent.ma Sig.ra", company |-> "Spett.le"]

SALUTATION_GREET ==
  [male |-> "Egregio Signor", female |-> "Gentilissima Signora",
   company |-> "Spettabile"]

\* the values of label2value
RecipientTypes == {"male", "female", "company"}

COLUMN_ALIASES ==
  [h \in {"EntryDate", "ValueDate", "EntryType", "Amount"} |->
     CASE h \in {"EntryDate", "ValueDate"} -> "Item date"
       [] h = "EntryType" -> "Item name"
       [] h = "Amount" -> "Item value"]

EXPECTED_COLS == {"Item date", "Item name", "Item value"}

---------------------------------------------------------------------------
(* last_name and make_intro.  A name is the sequence of its pieces: a     *)
(* piece is a word (a maximal run of characters that are not whitespace)   *)
(* or one whitespace character, written " ".                               *)

\* name.split()
Split(name) == SelectSeq(name, LAMBDA p : p # " ")

\* a variant of Lower: the token compared as it is written
AsWritten(w) == w

\* str.lower() of the words the model types
Lower(w) ==
  CASE w = "Maria" -> "maria"
    [] w = "Mario" -> "mario"
    [] w = "Rossi" -> "rossi"
    [] w = "Salvatore" -> "salvatore"
    [] w = "Di" -> "di"
    [] w = "DI" -> "di"
    [] w = "D'" -> "d'"
    [] OTHER -> w

\* the set literal of line 243
PARTICLES ==
  { "di", "de", "del", "della", "d'", "da", "van", "von", "la", "le",
    "Di", "De", "Del", "Della", "D'", "Da", "Van", "Von", "La", "Le" }

\* tokens[-1] of a name without a token raises IndexError
LastNameRaises(name) == Split(name) = <<>>

last_name(name) ==
  LET tokens == Split(name)
      n == Len(tokens)
  IN  IF n >= 2 /\ Lower(tokens[n - 1]) \in PARTICLES
        THEN <<tokens[n - 1], " ", tokens[n]>>
        ELSE <<tokens[n]>>

\* the greeting line of make_intro (the body after it is a fixed text)
make_intro(recipient_type, client_name) ==
  LET greet_name == IF recipient_type = "company" THEN client_name
                    ELSE last_name(client_name)
  IN  <<SALUTATION_GREET[recipient_type], " ">> \o greet_name \o <<",">>

\* standardise_columns: the label each column of the sheet comes back with
Renamed(cols) ==
  [h \in cols |->
     IF h \in DOMAIN COLUMN_ALIASES THEN COLUMN_ALIASES[h] ELSE h]

Labels(dfc) == {dfc[h] : h \in DOMAIN dfc}

StandardiseRaises(cols) ==
  /\ ~ (EXPECTED_COLS \subseteq cols)
  /\ ~ (EXPECTED_COLS \subseteq Labels(Renamed(cols)))

standardise_columns(cols) ==
  IF EXPECTED_COLS \subseteq cols THEN [h \in cols |-> h]
  ELSE Renamed(cols)

\* df[label] of a frame in which two columns carry the label is a frame,
\* not a column
IsFrame(dfc, label) == Cardinality({h \in DOMAIN dfc : dfc[h] = label}) > 1

---------------------------------------------------------------------------
(* Cells of the "Item value" column.  A cell of the sheet is a number, a   *)
(* text (its characters) or empty; after pd.to_numeric it is a number or   *)
(* NaN.                                                                    *)

NumCell(n) == [kind |-> "num", n |-> n, s |-> <<>>]

TextCell(s) == [kind |-> "text", n |-> 0, s |-> s]

NaN == [kind |-> "nan", n |-> 0, s |-> <<>>]

Digits == {"0", "1", "2", "3", "4", "5", "6", "7", "8", "9"}

DigitVal(c) ==
  CASE c = "0" -> 0 [] c = "1" -> 1 [] c = "2" -> 2 [] c = "3" -> 3
    [] c = "4" -> 4 [] c = "5" -> 5 [] c = "6" -> 6 [] c = "7" -> 7
    [] c = "8" -> 8 [] c = "9" -> 9

RECURSIVE DigitsVal(_)
DigitsVal(s) ==
  IF s = <<>> THEN 0
  ELSE 10 * DigitsVal(SubSeq(s, 1, Len(s) - 1)) + DigitVal(s[Len(s)])

\* the text of a whole number: an optional sign, then digits only
IsNumericText(s) ==
  LET body == IF s # <<>> /\ s[1] \in {"-", "+"} THEN Tail(s) ELSE s
  IN  body # <<>> /\ \A i \in DOMAIN body : body[i] \in Digits

ParseText(s) ==
  IF s[1] = "-" THEN 0 - DigitsVal(Tail(s))
  ELSE IF s[1] = "+" THEN DigitsVal(Tail(s))
  ELSE DigitsVal(s)

\* pd.to_numeric(..., errors="coerce") on one cell
ToNumeric(c) ==
  CASE c.kind = "num" -> c
    [] c.kind = "text" /\ IsNumericText(c.s) -> NumCell(ParseText(c.s))
    [] OTHER -> NaN

\* df["Item value"] = pd.to_numeric(df["Item value"], errors="coerce")
CoerceColumn(d) ==
  [i \in DOMAIN d |-> [name |-> d[i].name, value |-> ToNumeric(d[i].value)]]

\* df.dropna(subset=["Item value"])
DropNa(d) == SelectSeq(d, LAMBDA r : r.value.kind = "num")

---------------------------------------------------------------------------
(* Registry lookups *)

HasKey(reg, x) == \E i \in DOMAIN reg : reg[i].key = x

Entry(reg, x) == reg[CHOOSE i \in DOMAIN reg : reg[i].key = x]

\* ITEM_CONFIG.get(x, {}).get("label", x)
LabelOf(reg, x) == IF HasKey(reg, x) THEN Entry(reg, x).label ELSE x

\* ITEM_CONFIG.get(x, {}).get("table", "T1")
TableOf(reg, x) == IF HasKey(reg, x) THEN Entry(reg, x).table ELSE "T1"

MaxOf(S) == CHOOSE m \in S : \A n \in S : n <= m

\* LABEL_POS.get(l, 999), LABEL_POS being the dict comprehension over
\* ITEM_CONFIG.values(): a later entry of a label overwrites an earlier one
LabelPos(reg, l) ==
  LET I == {i \in DOMAIN reg : reg[i].label = l}
  IN  IF I = {} THEN DEFAULT_POS ELSE reg[MaxOf(I)].pos

\* a variant of Signed without the exception for "Capitalizzazione"
SignedPositiveLabelsOnly(label, v) ==
  IF label \in POSITIVE_LABELS THEN v ELSE 0 - v

\* the lambda of df["Signed"]
Signed(label, v) ==
  IF label \in POSITIVE_LABELS \/ label = "Capitalizzazione" THEN v ELSE 0 - v

\* lines 279-288: the Label, Table and Signed columns of the numeric rows
NormalizeRow(reg, r) ==
  [name   |-> r.name,
   value  |-> r.value.n,
   Label  |-> LabelOf(reg, r.name),
   Table  |-> TableOf(reg, r.name),
   Signed |-> Signed(LabelOf(reg, r.name), r.value.n)]

Normalize(reg, d) ==
  LET kept == DropNa(d)
  IN  [i \in DOMAIN kept |-> NormalizeRow(reg, kept[i])]

---------------------------------------------------------------------------
(* The order of str: sort_values orders the Label column by Python's       *)
(* comparison of strings (by code point).  STR_ORDER lists, in that order, *)
(* every string that can become a label here: the labels of ITEM_CONFIG    *)
(* and the category names no registry key matches.                         *)

STR_ORDER ==
  <<
     "Agency fee",
     "Bonus Fedelta NOVIS",
     "Capitalizzazione",
     "Costi di caricamento",
     "Costi di emissione e gestione",
     "Costi di investimento",
     "Costi di investimento - Bonus Fedelta NOVIS",
     "Esonero Pagamento Premi ITP",
     "Imposta di bollo",
     "NOVIS Special Bonus",
     "Pagamenti dei Premi identificati",
     "Rendimento Bonus Fedelta NOVIS",
     "Riscatto (parziale)",
     "Trattenuta copertura rischio infortunio",
     "Trattenuta copertura rischio malattia, interventi chirurgici e assistenza",
     "Trattenuta copertura rischio morte",
     "Unknown fee"
  >>

StrIndex(x) == CHOOSE i \in DOMAIN STR_ORDER : STR_ORDER[i] = x

StrLess(a, b) == StrIndex(a) < StrIndex(b)

---------------------------------------------------------------------------
(* aggregate_tables, lines 290-302 *)

RECURSIVE SumSigned(_)
SumSigned(n) ==
  IF n = <<>> THEN 0 ELSE n[1].Signed + SumSigned(Tail(n))

\* a variant of GroupSum: the sign policy applied once more, to the sum of
\* the group
GroupSumSignedAgain(n, t, l) ==
  Signed(l, SumSigned(SelectSeq(n, LAMBDA r : r.Table = t /\ r.Label = l)))

\* a variant of GroupSum: the first posting of the group instead of the sum
\* (["Signed"].first())
GroupFirst(n, t, l) ==
  LET g == SelectSeq(n, LAMBDA r : r.Table = t /\ r.Label = l)
  IN  IF g = <<>> THEN 0 ELSE g[1].Signed

\* df.groupby(["Table", "Label"], as_index=False)["Signed"].sum()
GroupSum(n, t, l) ==
  SumSigned(SelectSeq(n, LAMBDA r : r.Table = t /\ r.Label = l))

GroupBy(n) ==
  { [Table  |-> n[i].Table,
     Label  |-> n[i].Label,
     Amount |-> GroupSum(n, n[i].Table, n[i].Label)] : i \in DOMAIN n }

\* a variant of DropZero: grouped[grouped["Amount"] > 0]
KeepPositive(G) == {g \in G : g.Amount > 0}

\* grouped = grouped[grouped["Amount"] != 0]
DropZero(G) == {g \in G : g.Amount # 0}

\* the order of sort_values(["sort_key", "Label"])
RowBefore(reg, a, b) ==
  \/ LabelPos(reg, a.Label) < LabelPos(reg, b.Label)
  \/ /\ LabelPos(reg, a.Label) = LabelPos(reg, b.Label)
     /\ StrLess(a.Label, b.Label)

RECURSIVE SortRows(_, _)
SortRows(reg, G) ==
  IF G = {} THEN <<>>
  ELSE LET first == CHOOSE g \in G :
                      \A h \in G \ {g} : RowBefore(reg, g, h)
       IN  <<[Label |-> first.Label, Amount |-> first.Amount]>>
             \o SortRows(reg, G \ {first})

\* the loop over grouped.groupby("Table"): one sorted frame per table id
\* that has a row left
TablesOf(reg, G) ==
  [tid \in {g.Table : g \in G} |->
     SortRows(reg, {g \in G : g.Table = tid})]

Aggregate(reg, n) == TablesOf(reg, DropZero(GroupBy(n)))

\* aggregate_tables(df), as a function of the frame it is given
AggregateTables(reg, d) == Aggregate(reg, Normalize(reg, CoerceColumn(d)))

---------------------------------------------------------------------------
(* build_doc, lines 375-489 *)

RECURSIVE SumAmount(_)
SumAmount(rows) ==
  IF rows = <<>> THEN 0 ELSE rows[1].Amount + SumAmount(Tail(rows))

\* subtotal = df_tbl["Amount"].sum()
Subtotal(tbls, tid) == SumAmount(tbls[tid])

\* [k for k in TABLE_CONFIG if k in tables]
TablesInOrder(tbls) == SelectSeq(TABLE_ORDER, LAMBDA k : k \in DOMAIN tbls)

Block(kind, table, label, amount) ==
  [kind |-> kind, table |-> table, label |-> label, amount |-> amount,
   text |-> <<>>]

\* a paragraph that carries a text of the client
Para(kind, text) == [Block(kind, "", "", 0) EXCEPT !.text = text]

Blank == Block("blank", "", "", 0)

\* split_addr of an address of one line
split_addr(addr) == IF addr = "" THEN <<>> ELSE <<addr>>

\* a variant of TableBlocks: the subtotal row added without looking at
\* include_total
TableBlocksWithTotal(tbls, tid) ==
  [i \in DOMAIN tbls[tid] |->
     Block("row", tid, tbls[tid][i].Label, tbls[tid][i].Amount)]
  \o <<Block("subtotal", tid, "", SumAmount(tbls[tid]))>>
  \o <<Block("spacer", tid, "", 0)>>

\* one pass of the loop over the tables: the rows, the subtotal row of a
\* table that shows one, the blank paragraph
TableBlocks(tbls, tid) ==
  (IF TABLE_CONFIG[tid].title # ""
     THEN <<Block("title", tid, TABLE_CONFIG[tid].title, 0),
            Block("header", tid, "", 0)>>
     ELSE <<>>)
  \o
  [i \in DOMAIN tbls[tid] |->
     Block("row", tid, tbls[tid][i].Label, tbls[tid][i].Amount)]
  \o (IF TABLE_CONFIG[tid].include_total
        THEN <<Block("subtotal", tid, "", Subtotal(tbls, tid))>>
        ELSE <<>>)
  \o <<Block("spacer", tid, "", 0)>>

\* a variant of AddSubtotal: the addition placed inside the
\* "if cfg.get("include_total")" block, so that T3 is left out of the total
AddSubtotalWhenShown(tid, total, subtotal) ==
  IF TABLE_CONFIG[tid].include_total THEN total + subtotal ELSE total

\* grand_total += subtotal
AddSubtotal(tid, total, subtotal) == total + subtotal

RECURSIVE GrandTotal(_, _)
GrandTotal(tbls, tids) ==
  IF tids = <<>> THEN 0
  ELSE AddSubtotal(tids[Len(tids)],
                   GrandTotal(tbls, SubSeq(tids, 1, Len(tids) - 1)),
                   Subtotal(tbls, tids[Len(tids)]))

RECURSIVE AllTableBlocks(_, _)
AllTableBlocks(tbls, tids) ==
  IF tids = <<>> THEN <<>>
  ELSE TableBlocks(tbls, tids[1]) \o AllTableBlocks(tbls, Tail(tids))

\* the letter: heading blocks, the tables, the grand total, the closing
HeadBlocks(c) ==
  << Para("address", <<SALUTATION_ADDR[c.recipient_type], " ">> \o c.name) >>
  \o [i \in DOMAIN split_addr(c.addr) |->
        Para("address_line", <<split_addr(c.addr)[i]>>)]
  \o << Block("date", "", "", 0), Blank,
        Para("subject", <<c.contract, c.cf>>), Blank,
        Para("intro", make_intro(c.recipient_type, c.name)), Blank >>

TailBlocks ==
  << Blank, Block("outro", "", "", 0), Blank, Block("signature", "", "", 0),
     Blank, Block("footer", "", "", 0) >>

BuildDocBlocks(c, tbls) ==
  HeadBlocks(c)
  \o AllTableBlocks(tbls, TablesInOrder(tbls))
  \o <<Block("grand_total", "", "", GrandTotal(tbls, TablesInOrder(tbls)))>>
  \o TailBlocks

---------------------------------------------------------------------------
(* The sheets the model uploads: category names and "Item value" cells.    *)
(* Each specification below uploads sheets over its own names and cells.   *)

RegistryKeys == {ITEM_CONFIG[i].key : i \in DOMAIN ITEM_CONFIG}

\* a cost, a premium, the loyalty bonus (T2), the special bonus (T3) and a
\* name the registry does not hold
RawNames ==
  { "Administrative deduction", "Paid Premium", "NOVIS Loyalty Bonus",
    "NOVIS Special Bonus", "Unknown fee" }

RawCells ==
  { NumCell(50), NumCell(0 - 50), NumCell(0), TextCell(<<"n", "/", "a">>) }

\* every key of the registry, a name it does not hold, and a name it does
\* not hold that is spelled like one of its labels
SignNames == RegistryKeys \cup {"Unknown fee", "Capitalizzazione"}

SignCells == { NumCell(120), NumCell(500) }

\* raw keys that share a label, and the amounts of the worked example
MergeNames ==
  { "Administrative deduction", "Paid Premium", "Paid Single Premium",
    "Unknown fee" }

MergeCells ==
  { NumCell(20), NumCell(80), NumCell(500), TextCell(<<"-", "2", "0">>) }

\* ranks 3 and 7 of T1, the two rank-1 labels of T2, two names the registry
\* does not hold, and one it does not hold that is spelled like a label
OrderNames ==
  { "Investment deduction",
    "Risk deduction - accident insurance deduction",
    "Investment return of Novis Loyalty Bonus",
    "Investment deduction of Novis Loyalty Bonus",
    "Agency fee", "Unknown fee", "Bonus Fedelta NOVIS" }

OrderCells == { NumCell(50), NumCell(0 - 50) }

NoTables == [tid \in {} |-> <<>>]

---------------------------------------------------------------------------
(* main(), lines 514-591 *)

NoColumns == [h \in {} |-> h]

\* the form filled in for a man named Mario Rossi
FilledClient ==
  [name |-> <<"Mario", " ", "Rossi">>, addr |-> "Via Roma 1",
   cf |-> "RSSMRA80A01H501U", contract |-> "12345",
   recipient_type |-> "male"]

\* the form as the page first shows it
EmptyClient ==
  [name |-> <<>>, addr |-> "", cf |-> "", contract |-> "",
   recipient_type |-> "male"]

\* all([name, addr, cf, contract])
AllFilled(c) == c.name # <<>> /\ c.addr # "" /\ c.cf # "" /\ c.contract # ""

InitState(c, up, cols) ==
  /\ client = c
  /\ uploaded = up
  /\ columns = cols
  /\ file = <<>>
  /\ df_columns = NoColumns
  /\ df = <<>>
  /\ norm = <<>>
  /\ tables = NoTables
  /\ doc = <<>>
  /\ grand_total = 0
  /\ notice = ""
  /\ error = ""
  /\ pc = "upload"

\* the form filled in and a sheet with the expected header chosen
InitRun == InitState(FilledClient, TRUE, EXPECTED_COLS)

Init == registry = ITEM_CONFIG /\ InitRun

\* the user chooses a sheet, whose header is one of headers
Upload(headers) ==
  /\ pc = "upload"
  /\ ~ uploaded
  /\ uploaded' = TRUE
  /\ \E cols \in headers : columns' = cols
  /\ UNCHANGED << registry, client, file, df_columns, df, norm, tables, doc,
                  grand_total, notice, error, pc >>

\* one more row in the sheet the user uploads
AddRow(names, cells, max) ==
  /\ pc = "upload"
  /\ uploaded
  /\ Len(file) < max
  /\ \E x \in names, c \in cells :
       file' = Append(file, [name |-> x, value |-> c])
  /\ UNCHANGED << registry, client, uploaded, columns, df_columns, df, norm,
                  tables, doc, grand_total, notice, error, pc >>

\* one more piece typed into the widget "Nome": a word after the start of
\* the text or after whitespace, or one whitespace character
TypeName(words, max) ==
  /\ pc = "upload"
  /\ Len(client.name) < max
  /\ \E p \in words \cup {" "} :
       /\ IF p = " " \/ client.name = <<>> THEN TRUE
          ELSE client.name[Len(client.name)] = " "
       /\ client' = [client EXCEPT !.name = Append(@, p)]
  /\ UNCHANGED << registry, uploaded, columns, file, df_columns, df, norm,
                  tables, doc, grand_total, notice, error, pc >>

\* one of the four client widgets filled in
FillField ==
  /\ pc = "upload"
  /\ \E f \in {"name", "addr", "cf", "contract"} :
       /\ client[f] = EmptyClient[f]
       /\ client' = [client EXCEPT ![f] = FilledClient[f]]
  /\ UNCHANGED << registry, uploaded, columns, file, df_columns, df, norm,
                  tables, doc, grand_total, notice, error, pc >>

\* the selectbox "Destinatario"
SelectRecipient ==
  /\ pc = "upload"
  /\ \E t \in RecipientTypes \ {client.recipient_type} :
       client' = [client EXCEPT !.recipient_type = t]
  /\ UNCHANGED << registry, uploaded, columns, file, df_columns, df, norm,
                  tables, doc, grand_total, notice, error, pc >>

\* a run of main() without a file: "if file is not None" is skipped
NoFile ==
  /\ pc = "upload"
  /\ ~ uploaded
  /\ pc' = "idle"
  /\ UNCHANGED << registry, client, uploaded, columns, file, df_columns, df,
                  norm, tables, doc, grand_total, notice, error >>

\* df = standardise_columns(pd.read_excel(file))
ReadExcel ==
  /\ pc = "upload"
  /\ uploaded
  /\ ~ StandardiseRaises(columns)
  /\ df_columns' = standardise_columns(columns)
  /\ df' = file
  /\ pc' = "loaded"
  /\ UNCHANGED << registry, client, uploaded, columns, file, norm, tables,
                  doc, grand_total, notice, error >>

\* standardise_columns raises: st.error reports it and st.stop ends the run
ReadExcelRaises ==
  /\ pc = "upload"
  /\ uploaded
  /\ StandardiseRaises(columns)
  /\ notice' = "error"
  /\ pc' = "stopped"
  /\ UNCHANGED << registry, client, uploaded, columns, file, df_columns, df,
                  norm, tables, doc, grand_total, error >>

\* tables = aggregate_tables(df), returning.  Line 277 assigns the coerced
\* column into the frame it was given, which is the caller's df; the columns
\* added after dropna belong to the function's own frame (norm).
AggregateReturns ==
  /\ pc = "loaded"
  /\ ~ IsFrame(df_columns, "Item value")
  /\ ~ IsFrame(df_columns, "Item name")
  /\ df' = CoerceColumn(df)
  /\ norm' = Normalize(registry, df')
  /\ tables' = Aggregate(registry, norm')
  /\ pc' = "aggregated"
  /\ UNCHANGED << registry, client, uploaded, columns, file, df_columns, doc,
                  grand_total, notice, error >>

\* tables = aggregate_tables(df), raising: with no row left after dropna,
\* df.apply(..., axis=1) gives back a DataFrame on the pandas releases that
\* probe the lambda with an empty Series (the lambda's r["Item value"]
\* raises KeyError there, so no reduction is inferred), and assigning that
\* frame to the one column "Signed" raises ValueError; main() does not
\* catch it.  Releases that probe with a Series indexed by the columns
\* return an empty Series and the call returns (AggregateReturns).
AggregateRaises ==
  /\ pc = "loaded"
  /\ ~ IsFrame(df_columns, "Item value")
  /\ ~ IsFrame(df_columns, "Item name")
  /\ DropNa(CoerceColumn(df)) = <<>>
  /\ df' = CoerceColumn(df)
  /\ error' = "ValueError"
  /\ pc' = "raised"
  /\ UNCHANGED << registry, client, uploaded, columns, file, df_columns, norm,
                  tables, doc, grand_total, notice >>

\* tables = aggregate_tables(df) on a frame in which two columns are
\* labelled "Item value" or "Item name": df["Item value"] is then a frame
\* and pd.to_numeric raises TypeError at line 277; df["Item name"] is a
\* frame whose apply hands the lambda a Series, which ITEM_CONFIG.get cannot
\* hash (TypeError), or, with no row left, gives back a frame that cannot
\* be assigned to the one column "Label" (ValueError).  main() catches
\* neither.
AggregateRaisesOnFrame ==
  /\ pc = "loaded"
  /\ IsFrame(df_columns, "Item value") \/ IsFrame(df_columns, "Item name")
  /\ df' = IF IsFrame(df_columns, "Item value") THEN df ELSE CoerceColumn(df)
  /\ error' = IF IsFrame(df_columns, "Item value") THEN "TypeError"
              ELSE IF DropNa(CoerceColumn(df)) = <<>> THEN "ValueError"
              ELSE "TypeError"
  /\ pc' = "raised"
  /\ UNCHANGED << registry, client, uploaded, columns, file, df_columns, norm,
                  tables, doc, grand_total, notice >>

\* doc = build_doc(..., tables, ...) and st.download_button, behind
\* "if all([name, addr, cf, contract])"
BuildDoc ==
  /\ pc = "aggregated"
  /\ AllFilled(client)
  /\ client.recipient_type = "company" \/ ~ LastNameRaises(client.name)
  /\ doc' = BuildDocBlocks(client, tables)
  /\ grand_total' = GrandTotal(tables, TablesInOrder(tables))
  /\ notice' = "download"
  /\ pc' = "built"
  /\ UNCHANGED << registry, client, uploaded, columns, file, df_columns, df,
                  norm, tables, error >>

\* build_doc raising: make_intro calls last_name for a person, and
\* tokens[-1] of a name of whitespace only raises IndexError at line 246;
\* the document build_doc had begun is lost with its frame
BuildDocRaises ==
  /\ pc = "aggregated"
  /\ AllFilled(client)
  /\ client.recipient_type # "company"
  /\ LastNameRaises(client.name)
  /\ error' = "IndexError"
  /\ pc' = "raised"
  /\ UNCHANGED << registry, client, uploaded, columns, file, df_columns, df,
                  norm, tables, doc, grand_total, notice >>

\* the else branch of line 590: st.info, and no call of build_doc
ShowInfo ==
  /\ pc = "aggregated"
  /\ ~ AllFilled(client)
  /\ notice' = "info"
  /\ pc' = "blocked"
  /\ UNCHANGED << registry, client, uploaded, columns, file, df_columns, df,
                  norm, tables, doc, grand_total, error >>

Run == ReadExcel \/ AggregateReturns \/ AggregateRaises \/ BuildDoc

Next == AddRow(RawNames, RawCells, MaxRows) \/ Run

Spec == Init /\ [][Next]_vars

NextSign == AddRow(SignNames, SignCells, MaxSignRows) \/ Run

SpecSign == Init /\ [][NextSign]_vars

NextMerge == AddRow(MergeNames, MergeCells, MaxRows) \/ Run

SpecMerge == Init /\ [][NextMerge]_vars

NextOrder == AddRow(OrderNames, OrderCells, MaxRows) \/ Run

SpecOrder == Init /\ [][NextOrder]_vars

\* ITEM_CONFIG with the pos of one raw category of the label "Pagamenti dei
\* Premi identificati" edited to 1: of "Paid Premium", the first of the
\* three entries of the label, and of "Returned Premium", the last
ConflictFirstEntry == [ITEM_CONFIG EXCEPT ![12].pos = 1]

ConflictLastEntry == [ITEM_CONFIG EXCEPT ![14].pos = 1]

Registries == {ITEM_CONFIG, ConflictFirstEntry, ConflictLastEntry}

RegistryNames ==
  { "Administrative deduction", "Investment deduction", "Paid Premium",
    "Paid Single Premium", "Returned Premium" }

InitRegistry == registry \in Registries /\ InitRun

NextRegistry == AddRow(RegistryNames, OrderCells, MaxRows) \/ Run

SpecRegistry == InitRegistry /\ [][NextRegistry]_vars

\* a sheet of payments
PaymentNames == {"Paid Premium"}

PaymentCells == {NumCell(500)}

\* first names, surnames and particles in several spellings
Words == {"Maria", "Mario", "Rossi", "Salvatore", "Di", "DI", "D'", "van"}

\* the form filled in but for the name, which the user types
InitName ==
  /\ registry = ITEM_CONFIG
  /\ InitState([FilledClient EXCEPT !.name = <<>>], TRUE, EXPECTED_COLS)

NextName ==
  \/ TypeName(Words, MaxPieces)
  \/ SelectRecipient
  \/ AddRow(PaymentNames, PaymentCells, MaxSignRows)
  \/ Run
  \/ BuildDocRaises
  \/ ShowInfo

SpecName == InitName /\ [][NextName]_vars

\* a cost and a payment, as a number or as an annotation
GateNames == {"Administrative deduction", "Paid Premium"}

GateCells == {NumCell(50), TextCell(<<"n", "/", "a">>)}

\* the page as it first shows: no file, the four client widgets empty
InitGate == registry = ITEM_CONFIG /\ InitState(EmptyClient, FALSE, {})

NextGate ==
  \/ FillField
  \/ Upload({EXPECTED_COLS})
  \/ NoFile
  \/ AddRow(GateNames, GateCells, MaxRows)
  \/ Run
  \/ ShowInfo

SpecGate == InitGate /\ [][NextGate]_vars

\* the column names of the two naming schemes, and one of neither
Headers == EXPECTED_COLS \cup DOMAIN COLUMN_ALIASES \cup {"Note"}

\* the form filled in, no file chosen yet
InitShape == registry = ITEM_CONFIG /\ InitState(FilledClient, FALSE, {})

NextShape ==
  \/ Upload(SUBSET Headers)
  \/ AddRow(PaymentNames, PaymentCells, MaxSignRows)
  \/ Run
  \/ ReadExcelRaises
  \/ AggregateRaisesOnFrame

SpecShape == InitShape /\ [][NextShape]_vars

---------------------------------------------------------------------------
(* Reference sums of the properties below, written over the state and not  *)
(* over the operators of the model.                                        *)

RECURSIVE SumIdx(_, _)
SumIdx(f, S) ==
  IF S = {} THEN 0
  ELSE LET i == CHOOSE j \in S : TRUE
       IN  f[i] + SumIdx(f, S \ {i})

\* the amounts of the blocks of the letter, and the row blocks of a table
DocAmount == [i \in DOMAIN doc |-> doc[i].amount]

DocRows(t) == {i \in DOMAIN doc : doc[i].kind = "row" /\ doc[i].table = t}

DocSubtotal(t) == SumIdx(DocAmount, DocRows(t))

\* the normalized entries, the net of the group of entry i, and the
\* entries whose group does not net to zero
NormSigned == [i \in DOMAIN norm |-> norm[i].Signed]

SameGroup(i) ==
  {j \in DOMAIN norm :
     norm[j].Table = norm[i].Table /\ norm[j].Label = norm[i].Label}

NetOf(i) == SumIdx(NormSigned, SameGroup(i))

Surviving == {i \in DOMAIN norm : NetOf(i) # 0}

---------------------------------------------------------------------------
---------------------------------------------------------------------------
(* The rows of the caller's frame that hold a number, and the normalized   *)
(* entry of such a row: the entries keep the order of the rows.            *)

NumericRows == {i \in DOMAIN df : df[i].value.kind = "num"}

EntryOf(i) == Cardinality({k \in NumericRows : k <= i})

\* the labels the sign policy preserves: premium payments, loyalty-bonus
\* return, loyalty bonus, special bonus, capitalization
PreserveLabels ==
  { "Pagamenti dei Premi identificati", "Rendimento Bonus Fedelta NOVIS",
    "Bonus Fedelta NOVIS", "NOVIS Special Bonus", "Capitalizzazione" }

\* the raw categories of the registry that feed those labels
PreserveKeys ==
  { "Paid Premium", "Paid Single Premium", "Returned Premium",
    "Investment return of Novis Loyalty Bonus", "NOVIS Loyalty Bonus",
    "NOVIS Special Bonus", "Investment return from insurance funds",
    "Investment return from insurance funds of Regular premium",
    "Investment return from insurance funds of Single premium" }

---------------------------------------------------------------------------
(* C2: the sign policy is applied per category.  Every row with a numeric  *)
(* value v has one normalized entry, whose amount is +v when the row's     *)
(* canonical label is on the preserve list and -v otherwise; the registry  *)
(* keys of the preserved categories keep their sign and every other key is *)
(* inverted; a cost of 120 gives -120 and "Paid Premium" of 500 gives +500.*)
C2_SignPolicy ==
  (pc \in {"aggregated", "built"}) =>
    /\ Len(norm) = Cardinality(NumericRows)
    /\ \A i \in NumericRows :
         LET e == norm[EntryOf(i)]
             v == df[i].value.n
         IN  /\ e.name = df[i].name
             /\ e.Signed = IF e.Label \in PreserveLabels THEN v ELSE 0 - v
             /\ df[i].name \in RegistryKeys =>
                  e.Signed = IF df[i].name \in PreserveKeys THEN v ELSE 0 - v
             /\ df[i].name = "Unknown fee" => e.Signed = 0 - v
             /\ (df[i].name = "Administrative deduction" /\ v = 120) =>
                  e.Signed = 0 - 120
             /\ (df[i].name = "Paid Premium" /\ v = 500) => e.Signed = 500

\* a sheet with a cost of 120 and a "Paid Premium" of 500, aggregated
C2_Witness ==
  /\ pc = "aggregated"
  /\ \E i, j \in DOMAIN norm :
       /\ norm[i].name = "Administrative deduction" /\ norm[i].value = 120
       /\ norm[i].Signed = 0 - 120
       /\ norm[j].name = "Paid Premium" /\ norm[j].value = 500
       /\ norm[j].Signed = 500

---------------------------------------------------------------------------
(* The raw categories of the sheet that the registry does not hold, and    *)
(* the sum of the raw values of the numeric rows of one category.          *)

RawValue == [i \in DOMAIN df |-> df[i].value.n]

RowsNamed(x) == {i \in NumericRows : df[i].name = x}

UnmappedNames ==
  {df[i].name : i \in NumericRows} \ {registry[k].key : k \in DOMAIN registry}

RegistryLabels == {registry[k].label : k \in DOMAIN registry}

\* table T1 shows exactly one row labelled x, with amount a, and no other
\* table shows a row labelled x
ShownInT1(x, a) ==
  /\ "T1" \in DOMAIN tables
  /\ Cardinality({k \in DOMAIN tables["T1"] : tables["T1"][k].Label = x}) = 1
  /\ \A k \in DOMAIN tables["T1"] :
       tables["T1"][k].Label = x => tables["T1"][k].Amount = a
  /\ \A t \in DOMAIN tables \ {"T1"} :
       \A k \in DOMAIN tables[t] : tables[t][k].Label # x

Passthrough(x) ==
  LET total == SumIdx(RawValue, RowsNamed(x))
  IN  total # 0 => ShownInT1(x, 0 - total)

(* C3: every raw category that is not a key of the registry is shown in    *)
(* table T1 under its raw string, with the sign-inverted sum of its raw    *)
(* values as the amount (a category whose values sum to zero is shown      *)
(* nowhere), also when the string is spelled like a label of the registry. *)
C3_UnmappedPassthrough ==
  (pc \in {"aggregated", "built"}) =>
    \A x \in UnmappedNames : Passthrough(x)

\* the same for the raw strings that are not spelled like a label of the
\* registry: this much the code does
C3_PassthroughOfOtherStrings ==
  (pc \in {"aggregated", "built"}) =>
    \A x \in UnmappedNames \ RegistryLabels : Passthrough(x)

---------------------------------------------------------------------------
(* The worked example: two administrative deductions and a paid premium,   *)
(* in any order of the rows.                                               *)

ExampleRows ==
  { [name |-> "Administrative deduction", value |-> NumCell(80)],
    [name |-> "Administrative deduction", value |-> NumCell(20)],
    [name |-> "Paid Premium", value |-> NumCell(500)] }

IsExample == Len(file) = 3 /\ {file[i] : i \in DOMAIN file} = ExampleRows

(* C4: rows merge by (table, canonical label).  After aggregation a table  *)
(* holds at most one row per label, and the row's amount is the sum of the *)
(* sign-normalized values of all the input rows that map to that table and *)
(* label, whatever their raw keys.  The example gives exactly two T1 rows, *)
(* "Costi di caricamento" = -100 and "Pagamenti dei Premi identificati" =  *)
(* +500, no other table, and subtotal and grand total +400.                *)
C4_MergeByLabel ==
  (pc \in {"aggregated", "built"}) =>
    /\ \A t \in DOMAIN tables :
         \A i, j \in DOMAIN tables[t] :
           tables[t][i].Label = tables[t][j].Label => i = j
    /\ \A t \in DOMAIN tables :
         \A k \in DOMAIN tables[t] :
           tables[t][k].Amount =
             SumIdx(NormSigned,
                    {j \in DOMAIN norm :
                       /\ norm[j].Table = t
                       /\ norm[j].Label = tables[t][k].Label})
    /\ IsExample =>
         /\ tables =
              [t \in {"T1"} |->
                 << [Label |-> "Costi di caricamento", Amount |-> 0 - 100],
                    [Label |-> "Pagamenti dei Premi identificati",
                     Amount |-> 500] >>]
         /\ pc = "built" =>
              /\ grand_total = 400
              /\ \E i \in DOMAIN doc :
                   /\ doc[i].kind = "subtotal"
                   /\ doc[i].table = "T1"
                   /\ doc[i].amount = 400

\* the letter of the example
C4_Witness ==
  /\ pc = "built"
  /\ IsExample
  /\ Len(tables["T1"]) = 2
  /\ grand_total = 400

\* a row that merges postings of two different raw keys
C4_WitnessTwoKeys ==
  /\ pc = "aggregated"
  /\ \E i, j \in DOMAIN norm :
       /\ norm[i].name = "Paid Premium"
       /\ norm[j].name = "Paid Single Premium"
       /\ "T1" \in DOMAIN tables
       /\ \E k \in DOMAIN tables["T1"] :
            /\ tables["T1"][k].Label = "Pagamenti dei Premi identificati"
            /\ tables["T1"][k].Amount = norm[i].Signed + norm[j].Signed

---------------------------------------------------------------------------
\* the rows table t shows under label l
RowsShown(t, l) ==
  IF t \in DOMAIN tables
    THEN {k \in DOMAIN tables[t] : tables[t][k].Label = l}
    ELSE {}

C5_WitnessZeroPosting ==
  /\ pc = "aggregated"
  /\ \E i \in DOMAIN norm :
       /\ norm[i].value = 0
       /\ NetOf(i) # 0
       /\ RowsShown(norm[i].Table, norm[i].Label) # {}

---------------------------------------------------------------------------
(* The rank of a shown row, read from the registry: a row is ranked when   *)
(* one of its postings has a raw category that is a key of the registry,   *)
(* and its rank is the pos of that key; a row all of whose postings have   *)
(* raw categories the registry does not hold is unmapped.                  *)

KeysBehind(t, l) ==
  {k \in DOMAIN registry :
     /\ registry[k].table = t
     /\ registry[k].label = l
     /\ \E j \in DOMAIN norm : norm[j].name = registry[k].key}

IsRanked(t, l) == KeysBehind(t, l) # {}

MinOf(S) == CHOOSE m \in S : \A n \in S : m <= n

RankOf(t, l) == MinOf({registry[k].pos : k \in KeysBehind(t, l)})

\* row a of table t may stand before row b
InOrder(t, a, b) ==
  IF IsRanked(t, a) /\ IsRanked(t, b)
    THEN \/ RankOf(t, a) < RankOf(t, b)
         \/ RankOf(t, a) = RankOf(t, b) /\ StrLess(a, b)
  ELSE IF IsRanked(t, a) THEN TRUE
  ELSE IF IsRanked(t, b) THEN FALSE
  ELSE StrLess(a, b)

\* the rows of every table, restricted to the labels in L, stand in order
TablesInOrderOver(L) ==
  \A t \in DOMAIN tables :
    \A i, j \in DOMAIN tables[t] :
      (i < j /\ tables[t][i].Label \in L /\ tables[t][j].Label \in L) =>
        InOrder(t, tables[t][i].Label, tables[t][j].Label)

ShownLabels ==
  UNION { {tables[t][k].Label : k \in DOMAIN tables[t]} : t \in DOMAIN tables }

\* the labels shown that are raw strings of unmapped categories spelled
\* like a label of the registry
LabelLookalikes == UnmappedNames \cap RegistryLabels

(* C6: ordering stability.  Within every table, whatever the order of the  *)
(* input rows, a label of lower rank stands before a label of higher rank, *)
(* labels of equal rank and unranked labels stand in lexicographic order,  *)
(* and the unmapped categories stand after every ranked label.             *)
C6_OrderingStability ==
  (pc \in {"aggregated", "built"}) => TablesInOrderOver(ShownLabels)

\* the same order over the rows that are not unmapped strings spelled like
\* a label of the registry: this much the code does
C6_OrderingOfOtherStrings ==
  (pc \in {"aggregated", "built"}) =>
    TablesInOrderOver(ShownLabels \ LabelLookalikes)

\* rank 7 was uploaded before rank 3 and an unmapped name before both
C6_ReachedRanks3And7 ==
  /\ pc = "aggregated"
  /\ Len(file) = 3
  /\ file[1].name = "Agency fee"
  /\ file[2].name = "Risk deduction - accident insurance deduction"
  /\ file[3].name = "Investment deduction"
  /\ "T1" \in DOMAIN tables
  /\ Len(tables["T1"]) = 3
  /\ tables["T1"][1].Label = "Costi di investimento"
  /\ tables["T1"][2].Label = "Trattenuta copertura rischio infortunio"
  /\ tables["T1"][3].Label = "Agency fee"

---------------------------------------------------------------------------
\* the lowest pos the registry gives to a label
LowestRank(l) ==
  MinOf({registry[k].pos : k \in {m \in DOMAIN registry : registry[m].label = l}})

\* two raw categories give the label different ranks
HasRankConflict(l) ==
  \E k, m \in DOMAIN registry :
    /\ registry[k].label = l /\ registry[m].label = l
    /\ registry[k].pos # registry[m].pos

C7_ConflictingRowsMerge ==
  (pc \in {"aggregated", "built"}) =>
    \A t \in DOMAIN tables :
      \A i, j \in DOMAIN tables[t] :
        /\ (tables[t][i].Label = tables[t][j].Label) => (i = j)
        /\ tables[t][i].Amount =
             SumIdx(NormSigned,
                    {n \in DOMAIN norm :
                       norm[n].Table = t /\ norm[n].Label = tables[t][i].Label})

\* postings of two raw categories whose ranks differ, merged into one row
C7_ReachedConflict ==
  /\ pc = "aggregated"
  /\ HasRankConflict("Pagamenti dei Premi identificati")
  /\ \E i, j \in DOMAIN norm :
       /\ norm[i].name = "Paid Premium"
       /\ norm[j].name = "Returned Premium"
  /\ RowsShown("T1", "Pagamenti dei Premi identificati") # {}
  /\ RowsShown("T1", "Costi di caricamento") # {}

---------------------------------------------------------------------------
(* The result of an aggregation re-expressed as entries: one entry per     *)
(* output row, with the row's table, label and amount.                     *)

RowEntries(t) ==
  IF t \in DOMAIN tables
    THEN [k \in DOMAIN tables[t] |->
            [Table  |-> t,
             Label  |-> tables[t][k].Label,
             Signed |-> tables[t][k].Amount]]
    ELSE <<>>

ReExpressed == RowEntries("T1") \o RowEntries("T2") \o RowEntries("T3")

Reversed(q) == [k \in DOMAIN q |-> q[Len(q) + 1 - k]]

SubtotalsOf(tbls) == [t \in DOMAIN tbls |-> Subtotal(tbls, t)]

---------------------------------------------------------------------------
\* the grand total the letter shows is zero
ShowsZeroTotal ==
  /\ grand_total = 0
  /\ \E i \in DOMAIN doc : doc[i].kind = "grand_total" /\ doc[i].amount = 0

C9_EmptyInputWhenItReturns ==
  (pc \in {"aggregated", "built"} /\ NumericRows = {}) =>
    /\ tables = NoTables
    /\ pc = "built" => ShowsZeroTotal

---------------------------------------------------------------------------
\* the rows of the sheet whose value cannot be coerced to a number, and the
\* sheet without them
Unparseable(r) == ToNumeric(r.value).kind = "nan"

HasUnparseable == \E i \in DOMAIN file : Unparseable(file[i])

WithoutUnparseable == SelectSeq(file, LAMBDA r : ~Unparseable(r))

\* the tables and the total are those of the sheet without its unparseable
\* rows
AsIfAbsent ==
  /\ pc \in {"aggregated", "built"} =>
       tables = AggregateTables(registry, WithoutUnparseable)
  /\ pc = "built" =>
       LET t == AggregateTables(registry, WithoutUnparseable)
       IN  grand_total = GrandTotal(t, TablesInOrder(t))

C10_DroppedWhenItReturns ==
  (pc \in {"aggregated", "built"} /\ HasUnparseable) => AsIfAbsent

\* a letter built from a sheet with an unparseable row between two others
C10_ReachedDrop ==
  /\ pc = "built"
  /\ Len(file) = 3
  /\ Unparseable(file[2])
  /\ Len(norm) = 2
  /\ grand_total # 0

---------------------------------------------------------------------------
(* The typed name and the greeting of the letter, read off the state: the  *)
(* positions of the words of the name, its last word and the word before   *)
(* it, and the text between the salutation and the comma of the intro      *)
(* paragraph.                                                              *)

WordAt == {i \in DOMAIN client.name : client.name[i] # " "}

LastWord == client.name[MaxOf(WordAt)]

WordsBefore == {i \in WordAt : i < MaxOf(WordAt)}

PrevWord == client.name[MaxOf(WordsBefore)]

\* the spellings of a particle that differ in case only
SpellingsOf(p) ==
  CASE p = "di" -> {"di", "Di", "dI", "DI"}
    [] p = "d'" -> {"d'", "D'"}
    [] p = "van" -> {"van", "Van", "vAn", "vaN", "VAn", "VaN", "vAN", "VAN"}
    [] OTHER -> {p}

IsParticle(w, P) == \E p \in P : w \in SpellingsOf(p)

\* the surname of the typed name when P are the particles
SurnameWith(P) ==
  IF WordsBefore # {} /\ IsParticle(PrevWord, P)
    THEN <<PrevWord, " ", LastWord>>
    ELSE <<LastWord>>

IntroBlocks == {i \in DOMAIN doc : doc[i].kind = "intro"}

GreetName(i) == SubSeq(doc[i].text, 3, Len(doc[i].text) - 1)

\* the greeting of every letter: the salutation of the recipient type, then
\* the full name for an organization and the surname under P for a person
GreetingUses(P) ==
  pc = "built" =>
    /\ Cardinality(IntroBlocks) = 1
    /\ \A i \in IntroBlocks :
         /\ doc[i].text[1] = SALUTATION_GREET[client.recipient_type]
         /\ doc[i].text[Len(doc[i].text)] = ","
         /\ IF client.recipient_type = "company"
              THEN GreetName(i) = client.name
              ELSE GreetName(i) = SurnameWith(P)

\* the particles of the specification of the composer
NineParticles == {"di", "de", "del", "della", "da", "van", "von", "la", "le"}

C11_WitnessRossi ==
  /\ pc = "built"
  /\ client.name = <<" ", "Mario", " ", " ", "Rossi">>
  /\ client.recipient_type = "male"
  /\ \E i \in IntroBlocks : GreetName(i) = <<"Rossi">>

\* a letter to a person whose name has the particle D' as a token
C11_WitnessApostrophe ==
  /\ pc = "built"
  /\ client.recipient_type # "company"
  /\ WordsBefore # {}
  /\ PrevWord = "D'"
  /\ \E i \in IntroBlocks : GreetName(i) = <<"D'", " ", LastWord>>

\* a letter to an organization, greeted with its full name
C11_WitnessCompany ==
  /\ pc = "built"
  /\ client.recipient_type = "company"
  /\ Len(client.name) = 3
  /\ \E i \in IntroBlocks : GreetName(i) = client.name

---------------------------------------------------------------------------
(* The end of a run of main(), and the client widgets left empty.          *)

RunOver == pc \in {"idle", "stopped", "raised", "blocked", "built"}

EmptyFields ==
  {f \in {"name", "addr", "cf", "contract"} : client[f] = EmptyClient[f]}

DocumentOffered == doc # <<>> \/ notice = "download"

C12_GateWhenItReturns ==
  /\ DocumentOffered => (uploaded /\ pc = "built" /\ EmptyFields = {})
  /\ (RunOver /\ pc # "raised" /\ uploaded /\ EmptyFields # {}) =>
       (doc = <<>> /\ notice = "info")
  /\ (RunOver /\ pc # "raised" /\ uploaded /\ EmptyFields = {}) =>
       (doc # <<>> /\ notice = "download")

\* a run blocked by one empty widget, on a sheet with a row
C12_ReachedBlocked ==
  /\ pc = "blocked"
  /\ Cardinality(EmptyFields) = 1
  /\ file # <<>>
  /\ notice = "info"

---------------------------------------------------------------------------
(* The header of the uploaded sheet against the two naming schemes, and    *)
(* the columns of the frame main() goes on with.                           *)

LogicalNames == {"Item date", "Item name", "Item value"}

CarriesItemScheme == LogicalNames \subseteq columns

CarriesEntryScheme ==
  /\ "EntryDate" \in columns \/ "ValueDate" \in columns
  /\ "EntryType" \in columns
  /\ "Amount" \in columns

\* the logical name a column name stands for, under either scheme
LogicalOf(h) ==
  CASE h \in {"Item date", "EntryDate", "ValueDate"} -> "Item date"
    [] h \in {"Item name", "EntryType"} -> "Item name"
    [] h \in {"Item value", "Amount"} -> "Item value"
    [] OTHER -> h

MissingAfterAliases ==
  \E l \in LogicalNames : \A h \in columns : LogicalOf(h) # l

ColumnsLabelled(l) == {h \in DOMAIN df_columns : df_columns[h] = l}

FileRead == uploaded /\ pc # "upload"

\* the run was stopped with the error reported, before any stage ran
Rejected ==
  /\ pc = "stopped"
  /\ notice = "error"
  /\ df = <<>>
  /\ norm = <<>>
  /\ tables = NoTables
  /\ doc = <<>>

(* C13: a file that carries the three required columns under either        *)
(* naming scheme is accepted and the rows main() goes on with expose       *)
(* exactly the three logical names, each on one column; a file whose       *)
(* required columns are missing after alias resolution is rejected: the    *)
(* error is reported and neither aggregation nor document building runs.   *)
C13_InputShapeGate ==
  /\ (FileRead /\ (CarriesItemScheme \/ CarriesEntryScheme)) =>
       /\ pc # "stopped"
       /\ notice # "error"
       /\ \A l \in LogicalNames : Cardinality(ColumnsLabelled(l)) = 1
  /\ (FileRead /\ MissingAfterAliases) => Rejected

\* the same with "on at least one column" for "on one column"
C13_GateUpToDuplicates ==
  /\ (FileRead /\ ~ MissingAfterAliases) =>
       /\ pc # "stopped"
       /\ notice # "error"
       /\ \A l \in LogicalNames : ColumnsLabelled(l) # {}
  /\ (FileRead /\ MissingAfterAliases) => Rejected

\* a header under which every logical name has one column is never the
\* reason of an exception of aggregate_tables
C13_PlainHeadersAggregate ==
  (FileRead /\ ~ MissingAfterAliases
            /\ \A l \in LogicalNames :
                 Cardinality({h \in columns : LogicalOf(h) = l}) = 1) =>
    (error # "TypeError" /\ (error = "ValueError" => file = <<>>))

\* a sheet under the second naming scheme, read and aggregated
C13_ReachedEntryScheme ==
  /\ pc = "built"
  /\ columns = {"ValueDate", "EntryType", "Amount", "Note"}
  /\ file # <<>>

\* a sheet that lacks a required column, rejected
C13_ReachedRejected ==
  /\ Rejected
  /\ columns = {"EntryDate", "Item name", "Note"}
  /\ file # <<>>

---------------------------------------------------------------------------
(* The two calls of main(): aggregate_tables(df) is the step from "loaded" *)
(* to "aggregated", build_doc(..., tables, ...) the step from "aggregated" *)
(* to "built".                                                             *)

AggregateCall == pc = "loaded" /\ pc' = "aggregated"

BuildDocCall == pc = "aggregated" /\ pc' = "built"

(* C14: no stage mutates its input.  When aggregate_tables returns, the    *)
(* caller's rows hold the values they held before the call and have the    *)
(* columns they had; when build_doc returns, the per-table results passed  *)
(* to it are unchanged.                                                    *)
C14_NoInputMutation ==
  [][ /\ AggregateCall => (df' = df /\ df_columns' = df_columns)
      /\ BuildDocCall => tables' = tables ]_vars

\* the part of C14 the code keeps: no column is added to the caller's rows,
\* a sheet whose "Item value" cells are all numbers is left as it was, and
\* build_doc leaves the tables as they were
C14_KeptPart ==
  [][ /\ AggregateCall =>
           /\ df_columns' = df_columns
           /\ Len(df') = Len(df)
           /\ \A i \in DOMAIN df :
                /\ df'[i].name = df[i].name
                /\ df[i].value.kind = "num" => df'[i] = df[i]
      /\ BuildDocCall => tables' = tables ]_vars

\* the caller's rows after a call that overwrote a text cell by its number
C14_ReachedOverwrite ==
  /\ pc = "aggregated"
  /\ \E i \in DOMAIN file :
       /\ file[i].value = TextCell(<<"-", "2", "0">>)
       /\ df[i].value = NumCell(0 - 20)

---------------------------------------------------------------------------
(* The blocks of the letter by position.                                   *)

TableRank(t) == CASE t = "T1" -> 1 [] t = "T2" -> 2 [] t = "T3" -> 3

OfTable == {i \in DOMAIN doc : doc[i].table # ""}

KindAt(k) == {i \in DOMAIN doc : doc[i].kind = k}

Closing == KindAt("outro") \cup KindAt("signature") \cup KindAt("footer")

\* the rows of table t in the letter, in the order of the letter
RECURSIVE RowsFrom(_, _)
RowsFrom(t, i) ==
  IF i > Len(doc) THEN <<>>
  ELSE (IF doc[i].kind = "row" /\ doc[i].table = t
          THEN <<[Label |-> doc[i].label, Amount |-> doc[i].amount]>>
          ELSE <<>>) \o RowsFrom(t, i + 1)

(* C15: in every letter the populated tables are emitted in the order T1,  *)
(* T2, T3 whatever the order of the rows of the sheet; within a table all  *)
(* category rows precede its subtotal row; a subtotal row is emitted for   *)
(* T1 and for T2 when populated and never for T3; and the one grand-total  *)
(* line comes after the last table and before the closing boilerplate.     *)
C15_BlockOrder ==
  pc = "built" =>
    /\ {doc[i].table : i \in OfTable} = DOMAIN tables
    /\ \A t \in DOMAIN tables : RowsFrom(t, 1) = tables[t]
    /\ \A i, j \in OfTable :
         i < j => TableRank(doc[i].table) <= TableRank(doc[j].table)
    /\ \A i \in KindAt("row"), j \in KindAt("subtotal") :
         doc[i].table = doc[j].table => i < j
    /\ \A t \in DOMAIN tables :
         Cardinality({j \in KindAt("subtotal") : doc[j].table = t})
           = IF t \in {"T1", "T2"} THEN 1 ELSE 0
    /\ Cardinality(KindAt("grand_total")) = 1
    /\ Closing # {}
    /\ \A g \in KindAt("grand_total") :
         /\ \A i \in OfTable : i < g
         /\ \A c \in Closing : g < c
         /\ \A h \in KindAt("intro") : h < g

\* a letter with all three tables from a sheet whose first row belongs to
\* T3 and whose last row belongs to T1
C15_Witness ==
  /\ pc = "built"
  /\ Len(file) = 3
  /\ file[1].name = "NOVIS Special Bonus"
  /\ file[2].name = "NOVIS Loyalty Bonus"
  /\ file[3].name = "Paid Premium"
  /\ DOMAIN tables = {"T1", "T2", "T3"}
  /\ \E i \in KindAt("subtotal"), j \in KindAt("row") :
       doc[i].table = "T2" /\ doc[j].table = "T3" /\ i < j

====
